---- MODULE Spec2Model ----
(***************************************************************************)
(* State-machine model of RecommenderBase (src/src/recommender_base.py):   *)
(* the identifier registries user_id_map / item_id_map, the three modes   *)
(* of _preprocess_data (fit, update, predict) and recommend.               *)
(*                                                                         *)
(* A data frame is a sequence of row records.  The model instance is used  *)
(* by one synchronous caller: a call runs to completion (pc = "returned",  *)
(* the call's arguments, its exception and its return value in the state), *)
(* the caller takes the result (Return) and may then call again.           *)
(***************************************************************************)
EXTENDS Integers, Sequences, FiniteSets, TLC

\* ------------------------------------------------------------------ bounds
MaxRows == 2       \* rows of a fit / update / predict frame
MaxCatalog == 3    \* rows of the fit frame that builds the catalogue recommend ranks
MaxAmount == 3     \* the amount argument of recommend

Users == {"u1", "u2", "u3"}
Items == {"i1", "i2", "i3"}
BatchItems == {"i1", "i2"}
Ratings == {4}
Preds == {1, 2}

\* ------------------------------------------------------------ data frames
RatingRows == [user_id : Users, item_id : BatchItems, rating : Ratings]
PairRows == [user_id : Users, item_id : BatchItems]
CatalogRows == [user_id : {"u1"}, item_id : Items, rating : Ratings]

SeqsUpTo(S, n) == UNION {[1..k -> S] : k \in 0..n}

Range(s) == {s[i] : i \in 1..Len(s)}

Column(df, c) == [i \in 1..Len(df) |-> df[i][c]]

\* the test of the duplicate count inverted: raises unless a pair repeats
duplicated_inverted(df) ==
    \A i, j \in 1..Len(df) :
        i < j => (df[i].user_id # df[j].user_id \/ df[i].item_id # df[j].item_id)

\* the duplicate check left out
duplicated_never(df) == FALSE

\* X.duplicated(subset=["user_id", "item_id"]).sum() != 0
duplicated(df) ==
    \E i, j \in 1..Len(df) :
        /\ i < j
        /\ df[i].user_id = df[j].user_id
        /\ df[i].item_id = df[j].item_id

Reorderings(df) ==
    {[i \in 1..Len(df) |-> df[p[i]]] :
        p \in {q \in [1..Len(df) -> 1..Len(df)] :
                  \A a, b \in 1..Len(df) : q[a] = q[b] => a = b}}

\* X.sample(frac=1, replace=False): the rows in any order
sample(df) == Reorderings(df)

\* the ids taken without removing repeats
unique_keep_all(s) == s

\* Series.unique(): the distinct values in order of first appearance
unique(s) ==
    LET F[i \in 0..Len(s)] ==
            IF i = 0 THEN <<>>
            ELSE IF s[i] \in Range(F[i - 1]) THEN F[i - 1]
                 ELSE Append(F[i - 1], s[i])
    IN F[Len(s)]

Max(S) == CHOOSE m \in S : \A x \in S : x <= m

\* indices counted from 1
enumerate_from_one(ids) ==
    [id \in Range(ids) |-> Max({i \in 1..Len(ids) : ids[i] = id})]

\* {id: i for (i, id) in enumerate(ids)}: a later entry replaces an earlier one
enumerate(ids) ==
    [id \in Range(ids) |-> Max({i \in 1..Len(ids) : ids[i] = id}) - 1]

\* X.query("item_id in @items")
query(df, items_kept) == SelectSeq(df, LAMBDA r : r.item_id \in items_kept)

\* the first new index without the + 1
new_user_id_no_increment(m) == Max({m[k] : k \in DOMAIN m})

\* new_user_id = max(self.user_id_map.values()) + 1
new_user_id(m) == Max({m[k] : k \in DOMAIN m}) + 1

\* the value Series.map leaves for a key the dict does not have
NaN == -9

\* Series.map(dict)
map(s, m) == [i \in 1..Len(s) |-> IF s[i] \in DOMAIN m THEN m[s[i]] ELSE NaN]

\* missing values left as they are
fillna_keep(s, v) == s

\* X.fillna(v)
fillna(s, v) == [i \in 1..Len(s) |-> IF s[i] = NaN THEN v ELSE s[i]]

IndexOf(s, x) == CHOOSE i \in 1..Len(s) : s[i] = x

EmptyMap == [k \in {} |-> 0]

\* list(d.keys()): a dict lists its keys in insertion order, which for both
\* registries is the order of the assigned indices
keys(m) == [i \in 1..Cardinality(DOMAIN m) |-> CHOOSE k \in DOMAIN m : m[k] = i - 1]

\* X.loc[:, "user_id"] = X["user_id"].map(self.user_id_map), same for item_id
remap(df, um, im) ==
    [i \in 1..Len(df) |->
        [df[i] EXCEPT !.user_id = map(Column(df, "user_id"), um)[i],
                      !.item_id = map(Column(df, "item_id"), im)[i]]]

\* X.fillna(-1, inplace=True) on the two id columns of a predict frame
fillna_frame(df, v) ==
    [i \in 1..Len(df) |->
        [df[i] EXCEPT !.user_id = fillna(Column(df, "user_id"), v)[i],
                      !.item_id = fillna(Column(df, "item_id"), v)[i]]]

\* the user registry after the loop over the batch's users
extend(m, added) ==
    [u \in DOMAIN m \cup Range(added) |->
        IF u \in DOMAIN m THEN m[u]
        ELSE new_user_id(m) + IndexOf(added, u) - 1]

\* items_known ignored
candidates_all(all_items, known) == all_items

\* items = [item for item in items if item not in items_known]
\* items_known is <<>> for None and <<S>> for a list with the elements S
None == <<>>
candidates(all_items, known) ==
    IF known = None THEN all_items
    ELSE SelectSeq(all_items, LAMBDA it : it \notin known[1])

\* sorted with ascending=True
sort_values_ascending(df) ==
    {s \in Reorderings(df) :
        \A i, j \in 1..Len(s) : i < j => s[i].rating_pred <= s[j].rating_pred}

\* sort_values(by="rating_pred", ascending=False): the default sort is not
\* stable, so rows of equal rating_pred may come out in any order
sort_values(df) ==
    {s \in Reorderings(df) :
        \A i, j \in 1..Len(s) : i < j => s[i].rating_pred >= s[j].rating_pred}

\* DataFrame.head(n): the first n rows, or all but the last -n when n < 0
head(df, n) ==
    IF n >= 0 THEN SubSeq(df, 1, IF n < Len(df) THEN n ELSE Len(df))
    ELSE SubSeq(df, 1, IF Len(df) + n > 0 THEN Len(df) + n ELSE 0)

\* items_recommend.drop(["user_id"], axis="columns")
drop_user(df) ==
    [i \in 1..Len(df) |-> [item_id |-> df[i].item_id, rating_pred |-> df[i].rating_pred]]

\* ------------------------------------------------------------------ state
VARIABLES
    fitted,           \* FALSE while the attributes set in __init__ are None
    user_id_map, item_id_map, n_users, n_items,
    pc,               \* "idle" or "returned"
    call,             \* the operation that ran: fit, update, predict, recommend
    X_in,             \* the data frame passed to _preprocess_data
    raised,           \* the exception the call ended with, or "none"
    X,                \* the data frame returned by _preprocess_data
    known_users, new_users,
    user, amount, items_known, include_user,   \* arguments of recommend
    items,            \* recommend: the candidate items
    rating_pred,      \* recommend: what predict returned, per candidate
    items_recommend,  \* recommend: the returned frame
    pre               \* the registries as they were when the call began

registry == <<fitted, user_id_map, item_id_map, n_users, n_items>>
preproc == <<X_in, X, known_users, new_users>>
rec == <<user, amount, items_known, include_user, items, rating_pred, items_recommend>>
vars == <<registry, pc, call, raised, preproc, rec, pre>>

Snapshot ==
    [fitted |-> fitted, user_id_map |-> user_id_map, item_id_map |-> item_id_map,
     n_users |-> n_users, n_items |-> n_items]

NoPreproc == X_in' = <<>> /\ X' = <<>> /\ known_users' = <<>> /\ new_users' = <<>>
NoRec ==
    /\ user' = "" /\ amount' = 0 /\ items_known' = None /\ include_user' = TRUE
    /\ items' = <<>> /\ rating_pred' = EmptyMap /\ items_recommend' = <<>>

\* __init__: every attribute is None
Init ==
    /\ fitted = FALSE
    /\ user_id_map = EmptyMap /\ item_id_map = EmptyMap
    /\ n_users = 0 /\ n_items = 0
    /\ pc = "idle" /\ call = "none" /\ raised = "none"
    /\ X_in = <<>> /\ X = <<>> /\ known_users = <<>> /\ new_users = <<>>
    /\ user = "" /\ amount = 0 /\ items_known = None /\ include_user = TRUE
    /\ items = <<>> /\ rating_pred = EmptyMap /\ items_recommend = <<>>
    /\ pre = [fitted |-> FALSE, user_id_map |-> EmptyMap, item_id_map |-> EmptyMap,
              n_users |-> 0, n_items |-> 0]

\* a call of _preprocess_data begins
Enter(c, df) ==
    /\ pc = "idle"
    /\ pc' = "returned" /\ call' = c /\ X_in' = df /\ pre' = Snapshot
    /\ NoRec

\* the call ends with exception e before it assigned anything
Raise(e) ==
    /\ raised' = e
    /\ X' = <<>> /\ known_users' = <<>> /\ new_users' = <<>>
    /\ UNCHANGED registry

\* _preprocess_data(X, type="fit")
Fit(df) ==
    /\ Enter("fit", df)
    /\ IF duplicated(df) THEN Raise("Duplicate")
       ELSE \E Xs \in sample(df) :
            LET user_ids == unique(Column(Xs, "user_id"))
                item_ids == unique(Column(Xs, "item_id"))
            IN /\ fitted' = TRUE
               /\ user_id_map' = enumerate(user_ids)
               /\ item_id_map' = enumerate(item_ids)
               /\ n_users' = Len(user_ids)
               /\ n_items' = Len(item_ids)
               /\ X' = remap(Xs, enumerate(user_ids), enumerate(item_ids))
               /\ raised' = "none"
               /\ known_users' = <<>> /\ new_users' = <<>>

\* _preprocess_data(X, type="update")
Update(df) ==
    /\ Enter("update", df)
    /\ IF duplicated(df) THEN Raise("Duplicate")
       ELSE IF ~fitted THEN Raise("NoneType")
       ELSE \E Xs \in sample(df) :
            LET Xq == query(Xs, DOMAIN item_id_map)
                users == unique(Column(Xq, "user_id"))
                added == SelectSeq(users, LAMBDA u : u \notin DOMAIN user_id_map)
                known == SelectSeq(users, LAMBDA u : u \in DOMAIN user_id_map)
            IN IF DOMAIN user_id_map = {} THEN Raise("EmptyMax")
               ELSE /\ user_id_map' = extend(user_id_map, added)
                    /\ UNCHANGED <<fitted, item_id_map, n_users, n_items>>
                    /\ X' = remap(Xq, extend(user_id_map, added), item_id_map)
                    /\ known_users' = known
                    /\ new_users' = added
                    /\ raised' = "none"

\* _preprocess_data(X, type="predict")
Predict(df) ==
    /\ Enter("predict", df)
    /\ IF ~fitted
       THEN \/ Raise("NoneType")
            \/ /\ df = <<>>
               /\ Raise("none")
       ELSE /\ X' = fillna_frame(remap(df, user_id_map, item_id_map), -1)
            /\ raised' = "none"
            /\ known_users' = <<>> /\ new_users' = <<>>
            /\ UNCHANGED registry

\* recommend(user, amount, items_known, include_user)
Recommend(usr, amt, known, inc) ==
    /\ pc = "idle"
    /\ pc' = "returned" /\ call' = "recommend" /\ pre' = Snapshot
    /\ NoPreproc
    /\ user' = usr /\ amount' = amt /\ items_known' = known /\ include_user' = inc
    /\ UNCHANGED registry
    /\ IF ~fitted
       THEN /\ raised' = "NoneType"
            /\ items' = <<>> /\ rating_pred' = EmptyMap /\ items_recommend' = <<>>
       ELSE LET cand == candidates(keys(item_id_map), known)
            IN \E rp \in [Range(cand) -> Preds] :
               \E sorted \in sort_values(
                       [i \in 1..Len(cand) |->
                           [user_id |-> usr, item_id |-> cand[i], rating_pred |-> rp[cand[i]]]]) :
                  /\ items' = cand
                  /\ rating_pred' = rp
                  /\ items_recommend' =
                        IF inc THEN head(sorted, amt) ELSE drop_user(head(sorted, amt))
                  /\ raised' = "none"

\* the caller takes the result; the model instance is ready for the next call
Return ==
    /\ pc = "returned"
    /\ pc' = "idle" /\ call' = "none" /\ raised' = "none"
    /\ NoPreproc /\ NoRec
    /\ pre' = Snapshot
    /\ UNCHANGED registry

Next ==
    \/ \E df \in SeqsUpTo(RatingRows, MaxRows) : Fit(df)
    \/ \E df \in SeqsUpTo(RatingRows, MaxRows) : Update(df)
    \/ \E df \in SeqsUpTo(PairRows, MaxRows) : Predict(df)
    \/ \E usr \in Users, amt \in 0..MaxAmount,
          known \in {None} \cup {<<S>> : S \in SUBSET Items}, inc \in BOOLEAN :
          Recommend(usr, amt, known, inc)
    \/ Return

Spec == Init /\ [][Next]_vars

\* the same operations, with fit frames of one user rating up to MaxCatalog
\* items, so that recommend ranks a catalogue of three items
NextRecommend ==
    \/ \E df \in SeqsUpTo(CatalogRows, MaxCatalog) : Fit(df)
    \/ \E usr \in Users, amt \in 0..MaxAmount,
          known \in {None} \cup {<<S>> : S \in SUBSET Items}, inc \in BOOLEAN :
          Recommend(usr, amt, known, inc)
    \/ Return

SpecRecommend == Init /\ [][NextRecommend]_vars

\* ------------------------------------------------------------- properties
Returned(c) == pc = "returned" /\ call = c

UserIds(df) == {df[i].user_id : i \in 1..Len(df)}
ItemIds(df) == {df[i].item_id : i \in 1..Len(df)}

\* some (user_id, item_id) pair occurs in more than one row
HasRepeatedPair(df) ==
    Cardinality({<<df[i].user_id, df[i].item_id>> : i \in 1..Len(df)}) < Len(df)

Injective(m) == \A a, b \in DOMAIN m : m[a] = m[b] => a = b
Dense(m) == {m[k] : k \in DOMAIN m} = 0..(Cardinality(DOMAIN m) - 1)

\* C1: a fit on a frame without a repeated (user_id, item_id) pair leaves in
\* user_id_map / item_id_map exactly the distinct user / item ids of the frame,
\* each with one index, the indices being 0..k-1 without gap or repeat, and
\* n_users, n_items are the sizes of the two maps.
C1_FitBuildsDenseRegistries ==
    (Returned("fit") /\ ~HasRepeatedPair(X_in)) =>
        /\ raised = "none" /\ fitted
        /\ DOMAIN user_id_map = UserIds(X_in)
        /\ DOMAIN item_id_map = ItemIds(X_in)
        /\ Injective(user_id_map) /\ Dense(user_id_map)
        /\ Injective(item_id_map) /\ Dense(item_id_map)
        /\ n_users = Cardinality(DOMAIN user_id_map)
        /\ n_items = Cardinality(DOMAIN item_id_map)

C1_Witness ==
    /\ Returned("fit") /\ ~HasRepeatedPair(X_in) /\ raised = "none"
    /\ Len(X_in) = 2
    /\ Cardinality(DOMAIN user_id_map) = 2
    /\ Cardinality(DOMAIN item_id_map) = 1

\* C2: on a fitted model an update leaves the index of every user already in
\* user_id_map and the whole of item_id_map as they were; the users it adds
\* are exactly new_users, numbered consecutively from max(existing) + 1, so
\* user_id_map stays injective with the values 0..len-1, after any number of
\* updates.
C2_UpdateKeepsIndices ==
    /\ fitted => (Injective(user_id_map) /\ Dense(user_id_map))
    /\ (Returned("update") /\ pre.fitted) =>
        /\ item_id_map = pre.item_id_map
        /\ \A u \in DOMAIN pre.user_id_map :
              u \in DOMAIN user_id_map /\ user_id_map[u] = pre.user_id_map[u]
        /\ DOMAIN user_id_map \ DOMAIN pre.user_id_map = Range(new_users)
        /\ \A i \in 1..Len(new_users) :
              user_id_map[new_users[i]] =
                  Max({pre.user_id_map[k] : k \in DOMAIN pre.user_id_map}) + i

C2_Witness ==
    /\ Returned("update") /\ pre.fitted /\ raised = "none"
    /\ Cardinality(DOMAIN pre.user_id_map) = 1
    /\ Len(new_users) = 2
    /\ Cardinality(DOMAIN user_id_map) = 3

\* the rows of df whose item_id the registry m knows
Surviving(df, m) == {i \in 1..Len(df) : df[i].item_id \in DOMAIN m}

\* C3: an update whose frame has a row with an item_id that is not in
\* item_id_map (and no repeated pair) does not raise; the returned frame has
\* only the rows of known items, the item is not added, and a user that
\* occurs only in dropped rows is not added to user_id_map and is in neither
\* known_users nor new_users.
C3_UnknownItemRowDropped ==
    (/\ Returned("update") /\ pre.fitted /\ ~HasRepeatedPair(X_in)
     /\ \E i \in 1..Len(X_in) : X_in[i].item_id \notin DOMAIN pre.item_id_map) =>
        /\ raised = "none"
        /\ Len(X) = Cardinality(Surviving(X_in, pre.item_id_map))
        /\ \A j \in 1..Len(X) :
              X[j].item_id \in {pre.item_id_map[k] : k \in DOMAIN pre.item_id_map}
        /\ item_id_map = pre.item_id_map
        /\ \A u \in UserIds(X_in) :
              (\A i \in Surviving(X_in, pre.item_id_map) : X_in[i].user_id # u) =>
                  /\ u \notin DOMAIN pre.user_id_map => u \notin DOMAIN user_id_map
                  /\ u \notin Range(known_users)
                  /\ u \notin Range(new_users)

\* C4: a fit or update on a frame with a repeated (user_id, item_id) pair
\* raises the duplicate-rating error and user_id_map, item_id_map, n_users and
\* n_items are what they were before the call.
C4_DuplicateRaisesAndKeepsRegistries ==
    (/\ pc = "returned" /\ call \in {"fit", "update"}
     /\ HasRepeatedPair(X_in)) =>
        /\ raised = "Duplicate"
        /\ Snapshot = pre

C4_Witness ==
    /\ Returned("fit") /\ HasRepeatedPair(X_in)
    /\ pre.fitted /\ pre.n_users = 2
    /\ raised = "Duplicate"

\* every repeated pair of df has an item_id the registry m does not know
RepeatsOnlyUnknownItems(df, m) ==
    /\ HasRepeatedPair(df)
    /\ \A i, j \in 1..Len(df) :
          (/\ i < j /\ df[i].user_id = df[j].user_id
           /\ df[i].item_id = df[j].item_id) => df[i].item_id \notin DOMAIN m

\* C5 as stated: an update whose only repeated pairs have an item_id unknown
\* to item_id_map does not fail, and those rows are dropped.
C5_DuplicateCheckAfterFiltering ==
    (/\ Returned("update") /\ pre.fitted
     /\ RepeatsOnlyUnknownItems(X_in, pre.item_id_map)) =>
        /\ raised = "none"
        /\ Len(X) = Cardinality(Surviving(X_in, pre.item_id_map))

\* C5 amended: the duplicate check of an update inspects every row of the
\* frame, before the item filter: a repeated pair raises the duplicate-rating
\* error also when its item_id is unknown to item_id_map; no frame is
\* returned and the registries are unchanged.
C5_DuplicateCheckBeforeFiltering ==
    (/\ Returned("update") /\ pre.fitted
     /\ RepeatsOnlyUnknownItems(X_in, pre.item_id_map)) =>
        /\ raised = "Duplicate"
        /\ X = <<>> /\ known_users = <<>> /\ new_users = <<>>
        /\ Snapshot = pre

C5_Witness ==
    /\ Returned("update") /\ pre.fitted
    /\ pre.n_users > 0
    /\ RepeatsOnlyUnknownItems(X_in, pre.item_id_map)
    /\ raised = "Duplicate"

Lookup(m, k) == IF k \in DOMAIN m THEN m[k] ELSE -1

\* C6: predict-mode preprocessing on a fitted model changes neither registry
\* nor n_users / n_items, does not raise, and returns one row per input row
\* in the input's order, with each id replaced by its registry index, or by
\* -1 when the registry does not have it.
C6_PredictReadsOnly ==
    (Returned("predict") /\ pre.fitted) =>
        /\ raised = "none"
        /\ Snapshot = pre
        /\ Len(X) = Len(X_in)
        /\ \A i \in 1..Len(X_in) :
              /\ X[i].user_id = Lookup(pre.user_id_map, X_in[i].user_id)
              /\ X[i].item_id = Lookup(pre.item_id_map, X_in[i].item_id)

C6_Witness ==
    /\ Returned("predict") /\ pre.fitted /\ raised = "none"
    /\ Len(X_in) = 2 /\ X_in[1] = X_in[2]
    /\ X[1].user_id = -1 /\ X[2].item_id = 0

Min(a, b) == IF a < b THEN a ELSE b

\* C7: recommend returns min(amount, number of candidates) rows, each the
\* row of a different candidate with its predicted rating, in non-increasing
\* order of rating_pred, and no candidate left out has a higher rating_pred
\* than a returned row.
C7_TopAmountSorted ==
    (Returned("recommend") /\ raised = "none") =>
        /\ Len(items_recommend) = Min(amount, Len(items))
        /\ \A i \in 1..Len(items_recommend) :
              /\ items_recommend[i].item_id \in Range(items)
              /\ items_recommend[i].rating_pred = rating_pred[items_recommend[i].item_id]
        /\ \A i, j \in 1..Len(items_recommend) :
              /\ i < j => items_recommend[i].rating_pred >= items_recommend[j].rating_pred
              /\ i # j => items_recommend[i].item_id # items_recommend[j].item_id
        /\ \A i \in 1..Len(items_recommend) :
              \A c \in Range(items) \ ItemIds(items_recommend) :
                  items_recommend[i].rating_pred >= rating_pred[c]

C7_Witness ==
    /\ Returned("recommend") /\ raised = "none"
    /\ Len(items) = 3 /\ amount = 2 /\ Len(items_recommend) = 2
    /\ items_recommend[1].rating_pred > items_recommend[2].rating_pred
    /\ items_recommend[1].item_id = items[3]

KnownSet(known) == IF known = None THEN {} ELSE known[1]

\* C8: on a fitted model recommend does not raise whatever items_known holds,
\* its candidates are exactly the keys of item_id_map that are not in
\* items_known, each once, and no returned row has an item of items_known.
C8_KnownItemsExcluded ==
    (Returned("recommend") /\ pre.fitted) =>
        /\ raised = "none"
        /\ Snapshot = pre
        /\ Range(items) = DOMAIN item_id_map \ KnownSet(items_known)
        /\ Len(items) = Cardinality(Range(items))
        /\ ItemIds(items_recommend) \cap KnownSet(items_known) = {}

C8_Witness ==
    /\ Returned("recommend") /\ raised = "none"
    /\ Cardinality(DOMAIN item_id_map) = 2
    /\ Cardinality(KnownSet(items_known)) = 2
    /\ KnownSet(items_known) \ DOMAIN item_id_map # {}
    /\ Len(items) = 1 /\ Len(items_recommend) = 1

\* C9 as stated: a fit on a model whose registries are already built raises
\* and leaves them as they were.
C9_SecondFitRaises ==
    (Returned("fit") /\ pre.fitted) =>
        /\ raised # "none"
        /\ Snapshot = pre

\* C9 amended: a fit on a model whose registries are already built, with a
\* frame without repeated pair, does not raise; it replaces both registries
\* by ones built from the new frame alone, dense from 0, and sets n_users and
\* n_items anew.
C9_SecondFitRebuilds ==
    (Returned("fit") /\ pre.fitted /\ ~HasRepeatedPair(X_in)) =>
        /\ raised = "none"
        /\ DOMAIN user_id_map = UserIds(X_in)
        /\ DOMAIN item_id_map = ItemIds(X_in)
        /\ Dense(user_id_map) /\ Dense(item_id_map)
        /\ n_users = Cardinality(UserIds(X_in))
        /\ n_items = Cardinality(ItemIds(X_in))

C9_Witness ==
    /\ Returned("fit") /\ pre.fitted /\ raised = "none"
    /\ \E u \in DOMAIN pre.user_id_map \cap DOMAIN user_id_map :
          user_id_map[u] # pre.user_id_map[u]
    /\ DOMAIN pre.user_id_map \ DOMAIN user_id_map # {}

\* C10: an empty frame is accepted by fit, and by update and predict on a
\* fitted model, without raising: fit leaves empty registries and n_users =
\* n_items = 0, update and predict return an empty frame and leave the
\* registries as they were.
C10_EmptyTableAccepted ==
    (/\ pc = "returned" /\ call \in {"fit", "update", "predict"}
     /\ X_in = <<>>
     /\ call = "fit" \/ pre.fitted) =>
        /\ raised = "none"
        /\ X = <<>>
        /\ call = "fit" =>
              /\ fitted
              /\ DOMAIN user_id_map = {} /\ DOMAIN item_id_map = {}
              /\ n_users = 0 /\ n_items = 0
        /\ call # "fit" => Snapshot = pre
====
